---- MODULE Spec2Model ----
(***************************************************************************)
(* Model of the job application tracker's record store, research cache and *)
(* reconciler (src/app/services/data_service.py).                          *)
(*                                                                         *)
(* The CSV file is modelled as it is on disk: a header (the column names)  *)
(* and the lines after it, each the sequence of its fields.  Reading goes  *)
(* through DictReader's mapping of fields to keys, writing through         *)
(* DictWriter's mapping of keys to fields, so that what a rewrite does to  *)
(* short rows, long rows and legacy headers is computed, not assumed.      *)
(***************************************************************************)
EXTENDS Integers, Sequences, FiniteSets, TLC

(* ------------------------------ bounds --------------------------------- *)
\* Longest store the initial states enumerate over all the initial rows.
MaxInitRows == 2
\* Operations a behaviour runs.
MaxOps == 2

(* ------------------------------ values --------------------------------- *)
\* Python's None, as a value of a dict or of a candidate.
NoneVal == "<None>"
\* A line the csv reader rejects (NUL byte, field over the size limit).
BadLine == <<"<bad line>">>
\* Key under which DictReader files the fields beyond the header (restkey).
RestKey == "<rest>"

Titles == {"Eng", "eng", "Dev"}
Companies == {"Acme", "ACME", "Beta"}
BlankCompanies == {"", " "}
Statuses == {"Submitted", "Interview"}

\* The date that goes with a status in the stored and offered records.
DateOf(s) == IF s = "Submitted" THEN "2024-01-01" ELSE "2024-02-01"

\* str.lower() on the strings of the model.
Lower(s) ==
    CASE s = "Eng" -> "eng"
      [] s = "Dev" -> "dev"
      [] s = "Acme" -> "acme"
      [] s = "ACME" -> "acme"
      [] s = "Beta" -> "beta"
      [] OTHER -> s

\* str.strip() on the strings of the model.
Strip(s) == IF s = " " THEN "" ELSE s

\* Mutant: the name is not stripped before it is tested.
IsBlankUnstripped(c) == c = NoneVal \/ c = ""

\* `not company or company.strip() == ""`
IsBlank(c) == c = NoneVal \/ c = "" \/ Strip(c) = ""

(* ------------------------------ csv ------------------------------------ *)
FieldNames == <<"title", "company", "status", "date", "research">>
LegacyHeader == <<"title", "company", "status", "date">>

Range(f) == {f[i] : i \in DOMAIN f}

\* csv.DictReader: one line's fields under the header's names; a missing
\* field is None (restval), surplus fields are a list under restkey.
ReadRow(hdr, fields) ==
    LET named == [k \in Range(hdr) |->
                    LET i == CHOOSE j \in DOMAIN hdr : hdr[j] = k
                    IN  IF i <= Len(fields) THEN fields[i] ELSE NoneVal]
    IN  IF Len(fields) > Len(hdr)
        THEN named @@ (RestKey :> SubSeq(fields, Len(hdr) + 1, Len(fields)))
        ELSE named

\* csv.DictWriter.writerow with the five field names: a key outside them
\* raises ValueError, an absent key and a None are written as "".
WriteRaises(d) == \E k \in DOMAIN d : k \notin Range(FieldNames)

\* Mutant: the writer has no research column to fill.
WriteRowWithoutResearch(d) ==
    [i \in DOMAIN FieldNames |->
        IF FieldNames[i] # "research" /\ FieldNames[i] \in DOMAIN d
           /\ d[FieldNames[i]] # NoneVal
        THEN d[FieldNames[i]] ELSE ""]

WriteRow(d) ==
    [i \in DOMAIN FieldNames |->
        IF FieldNames[i] \in DOMAIN d /\ d[FieldNames[i]] # NoneVal
        THEN d[FieldNames[i]] ELSE ""]

(* ------------------------------ state ---------------------------------- *)
VARIABLES
    header,        \* first line of the CSV file: its column names
    rows,          \* the lines after it, each the sequence of its fields
    cache,         \* research file name -> body of the note, Missing or Short
    lastOp,        \* the operation that ran last
    arg,           \* the candidate it was given (NoArg when it takes none)
    ret,           \* what it returned
    msg,           \* what it logged about its outcome
    counts,        \* the counts remove_duplicates reports: read, kept, invalid
    genCalls,      \* its calls of generate_company_research, in order: <<company, answer>>
    cacheTouched,  \* research files it looked for, opened or wrote
    steps,         \* operations run so far
    prev,          \* lastOp, msg and counts of the operation before the last
    faults,        \* whether the environment fails file operations
    raised,        \* whether the last operation let an exception out to its caller
    pc,            \* where run_agent stands ("api": operations called one by one)
    inbox,         \* what extract_job_info gives for each fetched email, in order
    pos,           \* emails of the inbox the loop has been through
    offered,       \* candidates the loop passed to save_to_csv, in order
    successful,    \* successful_applications: how many saves returned True
    added,         \* rows the run appended to the CSV file
    runCalls,      \* every generator call of the run, in order
    logEntries,    \* entries the run appended to job_summary_log.txt
    sched          \* the scheduler process: where its thread stands, its child runs

runVars == <<pc, inbox, pos, offered, successful, added, runCalls, logEntries, sched>>

vars == <<header, rows, cache, lastOp, arg, ret, msg, counts, genCalls, cacheTouched, steps, prev, faults, raised,
          pc, inbox, pos, offered, successful, added, runCalls, logEntries, sched>>

(* ------------------------------ research cache ------------------------- *)
\* No research file of that name.
Missing == "<missing>"
\* A research file of at most three lines: a header with no body.
Short == "<short>"

\* company.replace('/', '_').replace('\\', '_')
SafeName(c) ==
    CASE c = "A/B" -> "A_B"
      [] c = "A\\B" -> "A_B"
      [] OTHER -> c

\* Company names with a character that cannot stand in a file name, and the
\* name they are given the file of.
PathCompanies == {"A/B", "A\\B", "A_B"}

ResearchFiles == {SafeName(c) : c \in Companies \cup PathCompanies}

\* What generate_company_research may return: None on failure, else a text.
GenOutcomes == {NoneVal, "gen"}

\* Mutant: a research file is never found, so research is generated anew.
FileExistsNever(c, f) == FALSE

\* os.path.exists(research_file)
FileExists(c, f) == f \in DOMAIN c /\ c[f] # Missing

\* Mutant: a file is written whatever the generator answered, with its
\* header lines alone when it answered nothing.
GenerateAndStoreAlways(company, c, gen, ioOk) ==
    LET f == SafeName(company)
        res == IF gen[company] \in {NoneVal, ""} THEN "" ELSE gen[company]
    IN  [res |-> res,
         cache |-> [c EXCEPT ![f] = IF res = "" THEN Short ELSE res],
         calls |-> <<<<company, gen[company]>>>>, touched |-> {f}]

\* The generating half of _get_company_research: ask the generator and, if
\* it answered, write the research file and return the answer; "" if it did
\* not answer or the file cannot be written.
GenerateAndStore(company, c, gen, ioOk) ==
    LET f == SafeName(company)
    IN  IF gen[company] \notin {NoneVal, ""}
        THEN IF ioOk
             THEN [res |-> gen[company], cache |-> [c EXCEPT ![f] = gen[company]],
                   calls |-> <<<<company, gen[company]>>>>, touched |-> {f}]
             ELSE [res |-> "", cache |-> c,
                   calls |-> <<<<company, gen[company]>>>>, touched |-> {f}]
        ELSE [res |-> "", cache |-> c,
              calls |-> <<<<company, gen[company]>>>>, touched |-> {f}]

\* _get_company_research(company) on the cache `c`, with `gen[company]` the
\* generator's answer if asked and `ioOk` whether opening a research file
\* works.  Gives the string returned, the cache afterwards, the generator
\* calls made and the files touched.
GetCompanyResearch(company, c, gen, ioOk) ==
    LET f == SafeName(company)
    IN  IF IsBlank(company)
        THEN [res |-> "No company name provided", cache |-> c,
              calls |-> <<>>, touched |-> {}]
        ELSE IF FileExists(c, f)
             THEN IF ~ioOk
                  THEN [res |-> "", cache |-> c, calls |-> <<>>, touched |-> {f}]
                  ELSE IF c[f] # Short
                       THEN [res |-> Strip(c[f]), cache |-> c,
                             calls |-> <<>>, touched |-> {f}]
                       ELSE GenerateAndStore(company, c, gen, ioOk)
             ELSE GenerateAndStore(company, c, gen, ioOk)

\* Whether a file operation works: always, unless the environment fails them.
IoChoices == IF faults THEN BOOLEAN ELSE {TRUE}

\* Every way one lookup can go: the generator answering or not, the
\* research files opening or not.
ResearchOutcomes(company, c) ==
    {GetCompanyResearch(company, c, [x \in {company} |-> g], ioOk) :
        g \in GenOutcomes, ioOk \in IoChoices}

(* ------------------------------ record store --------------------------- *)
\* The reader raises (csv.Error) when it meets a line it cannot parse.
ReadFails(rs) == \E i \in DOMAIN rs : rs[i] = BadLine

\* get_all_applications(): every line as a dict, in file order; [] on any error.
GetAllApplications(hdr, rs) ==
    IF ReadFails(rs) THEN <<>> ELSE [i \in DOMAIN rs |-> ReadRow(hdr, rs[i])]

\* The comparison of line 39-40 raises AttributeError on a None title of the
\* candidate, and on a None company of a stored row whose title matches.
CompareRaises(app, data) ==
    \/ data["title"] = NoneVal
    \/ /\ Lower(app["title"]) = Lower(data["title"])
       /\ app["company"] = NoneVal

\* Mutant: title and company are compared as they are spelled.
CompareMatchesAsSpelled(app, data) ==
    /\ data["title"] # NoneVal
    /\ app["title"] = data["title"]
    /\ app["company"] = data["company"]

CompareMatches(app, data) ==
    /\ ~CompareRaises(app, data)
    /\ Lower(app["title"]) = Lower(data["title"])
    /\ Lower(app["company"]) = Lower(data["company"])

\* _is_duplicate(data): True at the first stored row that matches; an exception
\* on the way is caught and answered False.
IsDuplicate(data, hdr, rs) ==
    LET apps == GetAllApplications(hdr, rs)
    IN  \E i \in DOMAIN apps :
           /\ CompareMatches(apps[i], data)
           /\ \A j \in 1..(i - 1) : ~CompareRaises(apps[j], data)

(* ------------------------------ candidates ----------------------------- *)
NoArg == [none |-> TRUE]
NoCounts == <<0, 0, 0>>
\* No scheduler process: the operations are called directly.
NoSched ==
    [mode |-> "none", at |-> "none", caller |-> "none", children |-> 0,
     due |-> FALSE, days |-> 0, served |-> 0, runs |-> 0]
\* Mutant: the candidate's company is not stripped before it is tested.
EmptyCompanyUnstripped(data) == data["company"] \in {NoneVal, ""}

\* `not data['company'] or data['company'].strip() == ""`
EmptyCompany(data) == IsBlank(data["company"])

\* Mutant: only the key fields are required.
RequiredKeyFields == {"title", "company"}

RequiredFields == {"title", "company", "status", "date"}

\* The status an offered record carries: for each title the one that the
\* initial rows of that title do not carry.
OfferedStatus(t) == IF t = "eng" THEN "Submitted" ELSE "Interview"

\* What extract_job_info hands over: the four keys, a JSON null where the
\* model found nothing.
FullCandidates ==
    {[title |-> t, company |-> c, status |-> OfferedStatus(t),
      date |-> DateOf(OfferedStatus(t))] :
        t \in Titles \cup {NoneVal}, c \in Companies}
    \cup
    {[title |-> "Eng", company |-> c, status |-> "Submitted", date |-> DateOf("Submitted")] :
        c \in BlankCompanies \cup {NoneVal}}

Without(d, k) == [x \in (DOMAIN d) \ {k} |-> d[x]]

\* A candidate as the extraction may return it with one key left out.
PartialCandidates ==
    {Without([title |-> "Eng", company |-> "Acme", status |-> "Submitted",
              date |-> DateOf("Submitted")], k) :
        k \in {"title", "company", "status", "date"}}

\* A candidate with a key the store has no column for.
ExtraCandidates ==
    {[title |-> "Dev", company |-> "Acme", status |-> "Submitted",
      date |-> DateOf("Submitted"), location |-> "Remote"]}

Candidates == FullCandidates \cup PartialCandidates \cup ExtraCandidates

(* ------------------------------ exceptions ---------------------------- *)
\* The outcomes in which an exception was raised inside the operation.
ErrorOutcomes == {"error_io", "error_value", "error"}

\* Mutant: only save_to_csv has a handler around its body.
CatchesOnlyInSave(op) == op = "save"

\* The operations whose whole body stands in `try: ... except Exception`,
\* the handler returning a value.
Catches(op) == op \in {"save", "dedup", "list", "get", "genall", "genall_monolith"}

\* Whether an operation that ended with this outcome raised to its caller.
Escaped(op, outcome) == outcome \in ErrorOutcomes /\ ~Catches(op)

(* ------------------------------ save_to_csv ---------------------------- *)
\* Mutant: the file is opened for writing, which empties it first.
AppendRowTruncates(rs, fields) == <<fields>>

\* open(self.csv_file, 'a') and writer.writerow: the line goes after the
\* lines the file holds.
AppendRow(rs, fields) == Append(rs, fields)

\* save_to_csv(data).  Where the code reaches the research lookup and the
\* append, the environment decides how the lookup goes and appendOk, whether
\* opening the CSV file for append works.
SaveToCsv(data) ==
    /\ lastOp' = "save"
    /\ arg' = data
    /\ header' = header
    /\ counts' = NoCounts
    /\ IF ~(RequiredFields \subseteq DOMAIN data)
       THEN /\ ret' = FALSE
            /\ msg' = "missing_fields"
            /\ UNCHANGED <<rows, cache>>
            /\ genCalls' = <<>>
            /\ cacheTouched' = {}
       ELSE IF EmptyCompany(data)
       THEN /\ ret' = FALSE
            /\ msg' = "empty_company"
            /\ UNCHANGED <<rows, cache>>
            /\ genCalls' = <<>>
            /\ cacheTouched' = {}
       ELSE IF IsDuplicate(data, header, rows)
       THEN /\ ret' = TRUE
            /\ msg' = "duplicate"
            /\ UNCHANGED <<rows, cache>>
            /\ genCalls' = <<>>
            /\ cacheTouched' = {}
       ELSE \E r \in ResearchOutcomes(data["company"], cache), appendOk \in IoChoices :
            LET full == ("research" :> r.res) @@ data
            IN  /\ cache' = r.cache
                /\ genCalls' = r.calls
                /\ cacheTouched' = r.touched
                /\ IF ~appendOk \/ WriteRaises(full)
                   THEN /\ ret' = FALSE
                        /\ msg' = IF ~appendOk THEN "error_io" ELSE "error_value"
                        /\ rows' = rows
                   ELSE /\ ret' = TRUE
                        /\ msg' = "saved"
                        /\ rows' = AppendRow(rows, WriteRow(full))

Save ==
    /\ steps < MaxOps
    /\ steps' = steps + 1
    /\ prev' = <<lastOp, msg, counts>>
    /\ faults' = faults
    /\ UNCHANGED runVars
    /\ \E data \in Candidates : SaveToCsv(data)
    /\ raised' = Escaped(lastOp', msg')

(* ------------------------------ get_all_applications ------------------ *)
\* get_all_applications() called on its own: the list of records is the
\* result, [] when reading raised.
List ==
    /\ steps < MaxOps
    /\ steps' = steps + 1
    /\ prev' = <<lastOp, msg, counts>>
    /\ faults' = faults
    /\ UNCHANGED runVars
    /\ lastOp' = "list"
    /\ arg' = NoArg
    /\ ret' = GetAllApplications(header, rows)
    /\ msg' = IF ReadFails(rows) THEN "error_io" ELSE ""
    /\ counts' = NoCounts
    /\ genCalls' = <<>>
    /\ cacheTouched' = {}
    /\ UNCHANGED <<header, rows, cache>>
    /\ raised' = Escaped(lastOp', msg')

(* ------------------------------ remove_duplicates ---------------------- *)
\* Mutant: the key compares title and company as they are spelled.
KeyOfAsSpelled(app) == <<app["title"], app["company"]>>

KeyOf(app) == <<Lower(app["title"]), Lower(app["company"])>>

\* Mutant: a known key keeps the value it has.
PutFirstWins(d, app) ==
    IF \E p \in DOMAIN d : KeyOf(d[p]) = KeyOf(app) THEN d ELSE Append(d, app)

\* Mutant: a known key is taken out and put back at the end.
PutMovesToEnd(d, app) ==
    Append(SelectSeq(d, LAMBDA x : KeyOf(x) # KeyOf(app)), app)

\* unique_apps[key] = app on a dict kept in insertion order: a new key goes
\* to the end, a known key keeps its place and takes the new value.
Put(d, app) ==
    IF \E p \in DOMAIN d : KeyOf(d[p]) = KeyOf(app)
    THEN [p \in DOMAIN d |-> IF KeyOf(d[p]) = KeyOf(app) THEN app ELSE d[p]]
    ELSE Append(d, app)

\* Mutant: the survivors come out newest key first.
RECURSIVE UniqueAppsNewestFirst(_, _)
UniqueAppsNewestFirst(apps, d) ==
    IF apps = <<>> THEN d
    ELSE LET app == Head(apps)
             known == \E p \in DOMAIN d : KeyOf(d[p]) = KeyOf(app)
         IN  UniqueAppsNewestFirst(Tail(apps),
                 IF IsBlank(app["company"]) THEN d
                 ELSE IF known
                      THEN [p \in DOMAIN d |-> IF KeyOf(d[p]) = KeyOf(app) THEN app ELSE d[p]]
                      ELSE <<app>> \o d)

\* Mutant: a row with a blank company is put under its key like any other.
RECURSIVE UniqueAppsKeepBlank(_, _)
UniqueAppsKeepBlank(apps, d) ==
    IF apps = <<>> THEN d
    ELSE UniqueAppsKeepBlank(Tail(apps), Put(d, Head(apps)))

\* The loop of lines 200-209: rows with a blank company are set aside, the
\* others are put under their key.
RECURSIVE UniqueApps(_, _)
UniqueApps(apps, d) ==
    IF apps = <<>> THEN d
    ELSE UniqueApps(Tail(apps),
                    IF IsBlank(Head(apps)["company"]) THEN d ELSE Put(d, Head(apps)))

InvalidApps(apps) == SelectSeq(apps, LAMBDA a : IsBlank(a["company"]))

\* Mutant: a survivor read without a research key is written with an empty
\* research field, no lookup made.
RECURSIVE WriteLoopNoBackfill(_, _, _, _)
WriteLoopNoBackfill(apps, st, gen, ioOk) ==
    IF apps = <<>> THEN st
    ELSE IF WriteRaises(Head(apps))
         THEN [st EXCEPT !.failed = TRUE]
         ELSE WriteLoopNoBackfill(Tail(apps),
                                  [st EXCEPT !.out = Append(st.out, WriteRow(Head(apps)))],
                                  gen, ioOk)

\* The loop of lines 215-220 on the file opened for writing: each survivor
\* gets its research backfilled when it has no such key and is written; a
\* writerow that raises ends the loop there.
RECURSIVE WriteLoop(_, _, _, _)
WriteLoop(apps, st, gen, ioOk) ==
    IF apps = <<>> THEN st
    ELSE LET app == Head(apps)
             legacy == "research" \notin DOMAIN app
             r == IF legacy
                  THEN GetCompanyResearch(app["company"], st.cache, gen, ioOk)
                  ELSE [res |-> "", cache |-> st.cache, calls |-> <<>>, touched |-> {}]
             full == IF legacy THEN ("research" :> r.res) @@ app ELSE app
             st1 == [st EXCEPT !.cache = r.cache,
                               !.calls = st.calls \o r.calls,
                               !.touched = st.touched \cup r.touched]
         IN  IF WriteRaises(full)
             THEN [st1 EXCEPT !.failed = TRUE]
             ELSE WriteLoop(Tail(apps), [st1 EXCEPT !.out = Append(st1.out, WriteRow(full))],
                            gen, ioOk)

\* The generator is asked only for rows read under a header with no research
\* column, so only then do its answers and the research files matter.
GenAnswers ==
    IF "research" \in Range(header)
    THEN {[c \in Companies |-> NoneVal]}
    ELSE [Companies -> GenOutcomes]

CacheIo == IF "research" \in Range(header) THEN {TRUE} ELSE IoChoices

\* remove_duplicates().  Once there is something to rewrite the environment
\* decides openOk, whether opening the CSV file for writing works, gen, the
\* generator's answer per company, and cacheIoOk, whether opening a research
\* file works.
RemoveDuplicates ==
    LET apps == GetAllApplications(header, rows)
        unique == UniqueApps(apps, <<>>)
        invalid == InvalidApps(apps)
    IN  /\ lastOp' = "dedup"
        /\ arg' = NoArg
        /\ IF apps = <<>>
           THEN /\ ret' = TRUE
                /\ msg' = "nothing"
                /\ counts' = NoCounts
                /\ UNCHANGED <<header, rows, cache>>
                /\ genCalls' = <<>>
                /\ cacheTouched' = {}
           ELSE \E openOk \in IoChoices :
                IF ~openOk
                THEN /\ ret' = FALSE
                     /\ msg' = "error_io"
                     /\ counts' = NoCounts
                     /\ UNCHANGED <<header, rows, cache>>
                     /\ genCalls' = <<>>
                     /\ cacheTouched' = {}
                ELSE \E gen \in GenAnswers, cacheIoOk \in CacheIo :
                     LET w == WriteLoop(unique,
                                        [out |-> <<>>, cache |-> cache, calls |-> <<>>,
                                         touched |-> {}, failed |-> FALSE],
                                        gen, cacheIoOk)
                     IN  /\ header' = FieldNames
                         /\ rows' = w.out
                         /\ cache' = w.cache
                         /\ genCalls' = w.calls
                         /\ cacheTouched' = w.touched
                         /\ ret' = ~w.failed
                         /\ msg' = IF w.failed THEN "error_value" ELSE "deduplicated"
                         /\ counts' = IF w.failed THEN NoCounts
                                      ELSE <<Len(apps), Len(unique), Len(invalid)>>

Dedup ==
    /\ steps < MaxOps
    /\ steps' = steps + 1
    /\ prev' = <<lastOp, msg, counts>>
    /\ faults' = faults
    /\ UNCHANGED runVars
    /\ RemoveDuplicates
    /\ raised' = Escaped(lastOp', msg')

(* ------------------------------ _get_company_research ------------------ *)
\* The company names a caller may pass: those of the emails, names with a
\* slash, a backslash or an underscore, blank ones, None.
GetArgs == Companies \cup PathCompanies \cup BlankCompanies \cup {NoneVal}

\* _get_company_research(company) called on its own: the string it returns
\* is the result, the store is not involved.
CacheGet(company) ==
    \E g \in GenOutcomes, ioOk \in IoChoices :
        LET r == GetCompanyResearch(company, cache, [x \in {company} |-> g], ioOk)
            opened == r.touched # {} /\ (r.calls = <<>> \/ g \notin {NoneVal, ""})
        IN  /\ lastOp' = "get"
            /\ arg' = [company |-> company]
            /\ ret' = r.res
            /\ msg' = IF opened /\ ~ioOk THEN "error_io" ELSE ""
            /\ counts' = NoCounts
            /\ cache' = r.cache
            /\ genCalls' = r.calls
            /\ cacheTouched' = r.touched
            /\ UNCHANGED <<header, rows>>

Get ==
    /\ steps < MaxOps
    /\ steps' = steps + 1
    /\ prev' = <<lastOp, msg, counts>>
    /\ faults' = faults
    /\ UNCHANGED runVars
    /\ \E company \in GetArgs : CacheGet(company)
    /\ raised' = Escaped(lastOp', msg')

(* ------------------------------ generate_research_for_all_companies ---- *)
\* Mutant: the loop ends after the first company.
OrdersFirstOnly(S) ==
    {o \in [1..(IF S = {} THEN 0 ELSE 1) -> S] : TRUE}

\* The orders in which a loop may go through a set.
Orders(S) ==
    {o \in [1..Cardinality(S) -> S] : \A i, j \in DOMAIN o : o[i] = o[j] => i = j}

\* The company whose research file cannot be opened for writing, if any.
WriteFailTargets == IF faults THEN Companies \cup {NoneVal} ELSE {NoneVal}

\* The loop of generate_research_for_all_companies over `order`, with
\* `gen[company]` the generator's answer and `failAt` the company whose file
\* cannot be written.  st.n is research_generated; the open that raises ends
\* the loop.
RECURSIVE GenerateLoop(_, _, _, _)
GenerateLoop(order, st, gen, failAt) ==
    IF order = <<>> THEN st
    ELSE LET company == Head(order)
             f == SafeName(company)
         IN  IF IsBlank(company)
             THEN GenerateLoop(Tail(order), st, gen, failAt)
             ELSE IF FileExists(st.cache, f)
             THEN GenerateLoop(Tail(order),
                               [st EXCEPT !.touched = @ \cup {f}], gen, failAt)
             ELSE IF gen[company] \notin {NoneVal, ""}
             THEN IF company = failAt
                  THEN [st EXCEPT !.touched = @ \cup {f},
                                  !.calls = Append(@, <<company, gen[company]>>),
                                  !.failed = TRUE]
                  ELSE GenerateLoop(Tail(order),
                                    [st EXCEPT !.touched = @ \cup {f},
                                               !.calls = Append(@, <<company, gen[company]>>),
                                               !.cache = [@ EXCEPT ![f] = gen[company]],
                                               !.n = @ + 1],
                                    gen, failAt)
             ELSE GenerateLoop(Tail(order),
                               [st EXCEPT !.touched = @ \cup {f},
                                          !.calls = Append(@, <<company, gen[company]>>)],
                               gen, failAt)

\* generate_research_for_all_companies(): the number it returns is the
\* result; an exception anywhere makes it 0.
GenerateResearchForAllCompanies ==
    LET apps == GetAllApplications(header, rows)
        companies == {apps[i]["company"] : i \in DOMAIN apps}
    IN  /\ lastOp' = "genall"
        /\ arg' = NoArg
        /\ counts' = NoCounts
        /\ UNCHANGED <<header, rows>>
        /\ IF apps = <<>>
           THEN /\ ret' = 0
                /\ msg' = "nothing"
                /\ cache' = cache
                /\ genCalls' = <<>>
                /\ cacheTouched' = {}
           ELSE \E order \in Orders(companies), gen \in [Companies -> GenOutcomes],
                   failAt \in WriteFailTargets :
                LET st == GenerateLoop(order,
                                       [cache |-> cache, calls |-> <<>>, touched |-> {},
                                        n |-> 0, failed |-> FALSE],
                                       gen, failAt)
                IN  /\ ret' = IF st.failed THEN 0 ELSE st.n
                    /\ msg' = IF st.failed THEN "error_io" ELSE "generated"
                    /\ cache' = st.cache
                    /\ genCalls' = st.calls
                    /\ cacheTouched' = st.touched

GenAll ==
    /\ steps < MaxOps
    /\ steps' = steps + 1
    /\ prev' = <<lastOp, msg, counts>>
    /\ faults' = faults
    /\ UNCHANGED runVars
    /\ GenerateResearchForAllCompanies
    /\ raised' = Escaped(lastOp', msg')

(* ------------------------------ src/main.py ---------------------------- *)
\* What a function that ends without a return statement gives where the
\* packaged one gives a count.
ReturnsNothing == -1

\* The loop of generate_research_for_all_companies of src/main.py, the
\* script the scheduler launches: no company name is skipped for being
\* blank, and a name that is None ends the loop (None has no replace).
RECURSIVE MonolithGenerateLoop(_, _, _, _)
MonolithGenerateLoop(order, st, gen, failAt) ==
    IF order = <<>> THEN st
    ELSE LET company == Head(order)
             f == SafeName(company)
         IN  IF company = NoneVal
             THEN [st EXCEPT !.failed = TRUE]
             ELSE IF FileExists(st.cache, f)
             THEN MonolithGenerateLoop(Tail(order),
                                       [st EXCEPT !.touched = @ \cup {f}], gen, failAt)
             ELSE IF gen[company] \notin {NoneVal, ""}
             THEN IF company = failAt
                  THEN [st EXCEPT !.touched = @ \cup {f},
                                  !.calls = Append(@, <<company, gen[company]>>),
                                  !.failed = TRUE]
                  ELSE MonolithGenerateLoop(Tail(order),
                           [st EXCEPT !.touched = @ \cup {f},
                                      !.calls = Append(@, <<company, gen[company]>>),
                                      !.cache = (f :> gen[company]) @@ @],
                           gen, failAt)
             ELSE MonolithGenerateLoop(Tail(order),
                      [st EXCEPT !.touched = @ \cup {f},
                                 !.calls = Append(@, <<company, gen[company]>>)],
                      gen, failAt)

\* generate_research_for_all_companies() of src/main.py: it returns nothing
\* on every path.
MonolithGenerateResearchForAllCompanies ==
    LET apps == GetAllApplications(header, rows)
        companies == {apps[i]["company"] : i \in DOMAIN apps}
    IN  /\ lastOp' = "genall_monolith"
        /\ arg' = NoArg
        /\ counts' = NoCounts
        /\ ret' = ReturnsNothing
        /\ UNCHANGED <<header, rows>>
        /\ IF apps = <<>>
           THEN /\ msg' = "nothing"
                /\ cache' = cache
                /\ genCalls' = <<>>
                /\ cacheTouched' = {}
           ELSE \E order \in Orders(companies),
                   gen \in [companies \ {NoneVal} -> GenOutcomes],
                   failAt \in WriteFailTargets :
                LET st == MonolithGenerateLoop(order,
                              [cache |-> cache, calls |-> <<>>, touched |-> {},
                               failed |-> FALSE],
                              gen, failAt)
                IN  /\ msg' = IF st.failed THEN "error" ELSE "generated"
                    /\ cache' = st.cache
                    /\ genCalls' = st.calls
                    /\ cacheTouched' = st.touched

MonolithGenAll ==
    /\ steps < MaxOps
    /\ steps' = steps + 1
    /\ prev' = <<lastOp, msg, counts>>
    /\ faults' = faults
    /\ UNCHANGED runVars
    /\ MonolithGenerateResearchForAllCompanies
    /\ raised' = Escaped(lastOp', msg')

(* ------------------------------ __init__ ------------------------------- *)
\* The header of a CSV file that does not exist.
NoFile == <<"<no file>">>

\* _ensure_files_exist(): a CSV file that does not exist is created with the
\* five column names and no rows; one that exists is not opened.
EnsureFilesExist ==
    /\ lastOp' = "initialize"
    /\ arg' = NoArg
    /\ ret' = TRUE
    /\ msg' = ""
    /\ counts' = NoCounts
    /\ genCalls' = <<>>
    /\ cacheTouched' = {}
    /\ cache' = cache
    /\ IF header = NoFile
       THEN header' = FieldNames /\ rows' = <<>>
       ELSE UNCHANGED <<header, rows>>

\* JobApplicationTracker(): a tracker constructed, the first or one more on
\* the same file (run_agent and generate_research_for_all_companies each
\* construct their own).
Initialize ==
    /\ pc \in {"new", "api"}
    /\ pc' = "api"
    /\ EnsureFilesExist
    /\ prev' = <<lastOp, msg, counts>>
    /\ raised' = FALSE
    /\ UNCHANGED <<steps, faults, inbox, pos, offered, successful, added, runCalls, logEntries, sched>>

(* ------------------------------ specification -------------------------- *)
\* Rows that earlier runs and earlier versions of the tracker wrote: every
\* title with two spellings of one company, the status varying with the
\* title, another company, and rows with a blank company.
InitStatus(t) == IF t = "eng" THEN "Interview" ELSE "Submitted"

WrittenRows ==
    {<<t, c, InitStatus(t), DateOf(InitStatus(t)), "note">> :
        t \in Titles, c \in {"Acme", "ACME"}}
    \cup {<<"Dev", "Beta", "Submitted", "2024-01-01", "">>,
          <<"Dev", " ", "Submitted", "2024-01-01", "note">>,
          <<"Eng", "", "Interview", "2024-02-01", "">>}

\* The rows of the longer initial stores.
CoreRows ==
    {<<"Eng", "Acme", "Submitted", "2024-01-01", "note">>,
     <<"eng", "ACME", "Interview", "2024-02-01", "">>,
     <<"Eng", "Beta", "Interview", "2024-02-01", "note">>,
     <<"Dev", " ", "Submitted", "2024-01-01", "note">>}

\* Rows of a store from before the research column.
LegacyRows ==
    {<<"Eng", "Acme", "Submitted", "2024-01-01">>,
     <<"eng", "ACME", "Interview", "2024-02-01">>,
     <<"Dev", "Beta", "Submitted", "2024-01-01">>,
     <<"Dev", " ", "Interview", "2024-02-01">>}

\* Rows not of the tracker's making: an unparsable line, a short row, a row
\* with no research field, a row with a field too many.
ForeignRows ==
    {BadLine,
     <<"Eng">>,
     <<"Dev", "Acme", "Interview", "2024-02-01">>,
     <<"Eng", "Acme", "Submitted", "2024-01-01", "note", "extra">>}

SeqsUpTo(S, n) == UNION {[1..k -> S] : k \in 0..n}

InitCaches ==
    {[f \in ResearchFiles |-> Missing],
     [f \in ResearchFiles |-> IF f = "ACME" THEN Missing ELSE "note"]}

\* What every behaviour starts with, whatever the files hold.
InitRest ==
    /\ lastOp = "init"
    /\ arg = NoArg
    /\ ret = TRUE
    /\ msg = ""
    /\ counts = NoCounts
    /\ genCalls = <<>>
    /\ cacheTouched = {}
    /\ steps = 0
    /\ prev = <<"", "", NoCounts>>
    /\ raised = FALSE
    /\ pc = "api"
    /\ inbox = <<>>
    /\ pos = 0
    /\ offered = <<>>
    /\ successful = 0
    /\ added = 0
    /\ runCalls = <<>>
    /\ logEntries = 0
    /\ sched = NoSched

\* The tracker constructed on a CSV file that the tracker itself wrote, in
\* this version or in one from before the research column; every file
\* operation works.
Init ==
    /\ \/ /\ header = FieldNames
          /\ rows \in SeqsUpTo(WrittenRows, MaxInitRows)
                        \cup [1..(MaxInitRows + 1) -> CoreRows]
       \/ /\ header = LegacyHeader
          /\ rows \in SeqsUpTo(LegacyRows, MaxInitRows)
    /\ cache \in InitCaches
    /\ faults = FALSE
    /\ InitRest

Next == Save \/ Dedup \/ List \/ Get \/ GenAll \/ MonolithGenAll

Spec == Init /\ [][Next]_vars

\* The same operations where file operations may fail and the CSV file may
\* hold rows not of the tracker's making.
FaultRows ==
    ForeignRows \cup
    {<<"Eng", "Acme", "Submitted", "2024-01-01", "note">>,
     <<"eng", "ACME", "Interview", "2024-02-01", "note">>,
     <<"Dev", " ", "Submitted", "2024-01-01", "note">>}

\* A research directory holding a file that has its header lines and no body
\* (a write that was interrupted, or a file not of the tracker's making).
FaultCaches ==
    {[f \in ResearchFiles |-> IF f = "Acme" THEN Short ELSE Missing]}

InitFaults ==
    /\ \/ /\ header = FieldNames
          /\ rows \in SeqsUpTo(FaultRows, MaxInitRows)
       \/ /\ header = LegacyHeader
          /\ rows \in SeqsUpTo(LegacyRows, MaxInitRows - 1)
    /\ cache \in InitCaches \cup FaultCaches
    /\ faults = TRUE
    /\ InitRest

SpecFaults == InitFaults /\ [][Next]_vars

\* The tracker's life on one CSV file from before its first construction:
\* the file does not exist yet, or it was left by an earlier run or by a
\* version from before the research column.
InitStore ==
    /\ \/ /\ header = NoFile
          /\ rows = <<>>
       \/ /\ header = FieldNames
          /\ rows \in SeqsUpTo(WrittenRows, MaxInitRows - 1)
       \/ /\ header = LegacyHeader
          /\ rows \in SeqsUpTo(LegacyRows, MaxInitRows - 1)
    /\ cache \in InitCaches
    /\ faults = FALSE
    /\ lastOp = "new"
    /\ arg = NoArg
    /\ ret = TRUE
    /\ msg = ""
    /\ counts = NoCounts
    /\ genCalls = <<>>
    /\ cacheTouched = {}
    /\ steps = 0
    /\ prev = <<"", "", NoCounts>>
    /\ raised = FALSE
    /\ pc = "new"
    /\ inbox = <<>>
    /\ pos = 0
    /\ offered = <<>>
    /\ successful = 0
    /\ added = 0
    /\ runCalls = <<>>
    /\ logEntries = 0
    /\ sched = NoSched

\* save_to_csv and remove_duplicates are methods: they run on a tracker
\* that has been constructed.
StoreSave == pc = "api" /\ Save

StoreDedup == pc = "api" /\ Dedup

NextStore == Initialize \/ StoreSave \/ StoreDedup

SpecStore == InitStore /\ [][NextStore]_vars

(* ------------------------------ run_agent ------------------------------ *)
MaxInbox == 2         \* Most emails one run fetches.
MaxRunRows == 2       \* Longest store a run starts on.

\* What extract_job_info gives for an email it cannot make sense of.
NoJobInfo == NoArg

\* What extract_job_info gives for the emails of a run: nothing, a new
\* application, one more for the same company, one with a blank company.
JobInfos ==
    {NoJobInfo,
     [title |-> "Dev", company |-> "Beta", status |-> "Interview", date |-> "2024-02-01"],
     [title |-> "Eng", company |-> "Beta", status |-> "Submitted", date |-> "2024-01-01"],
     [title |-> "Eng", company |-> " ", status |-> "Submitted", date |-> "2024-01-01"]}

\* Mutant: a failed email ends the loop.
NextEmailBreakOnFailure(n, p, failed) == IF failed THEN n ELSE p + 1

\* Where the loop over the n emails goes after email p + 1: `continue` after
\* a failed extraction, the end of the body after a save, failed or not.
NextEmail(n, p, failed) == p + 1

\* What a step of the run leaves alone.
RunFrame == UNCHANGED <<steps, prev, faults, raised, sched>>

\* Line 109: tracker.remove_duplicates(), its result ignored.
RunDedup ==
    /\ pc = "dedup"
    /\ pc' = "generate"
    /\ RemoveDuplicates
    /\ runCalls' = runCalls \o genCalls'
    /\ UNCHANGED <<inbox, pos, offered, successful, added, logEntries>>
    /\ RunFrame

\* Line 113: generate_research_for_all_companies(), its result ignored.
RunGenerate ==
    /\ pc = "generate"
    /\ pc' = "fetch"
    /\ GenerateResearchForAllCompanies
    /\ runCalls' = runCalls \o genCalls'
    /\ UNCHANGED <<inbox, pos, offered, successful, added, logEntries>>
    /\ RunFrame

\* Lines 117-125: fetch_linkedin_emails(); with no emails the run logs an
\* empty summary and returns.
RunFetch ==
    /\ pc = "fetch"
    /\ \E emails \in SeqsUpTo(JobInfos, MaxInbox) :
          /\ inbox' = emails
          /\ IF emails = <<>>
             THEN pc' = "done" /\ logEntries' = logEntries + 1
             ELSE pc' = "loop" /\ logEntries' = logEntries
          /\ ret' = Len(emails)
    /\ lastOp' = "fetch"
    /\ arg' = NoArg
    /\ msg' = ""
    /\ counts' = NoCounts
    /\ genCalls' = <<>>
    /\ cacheTouched' = {}
    /\ UNCHANGED <<header, rows, cache, pos, offered, successful, added, runCalls>>
    /\ RunFrame

\* Lines 131-153: one pass of the loop body.
RunEmail ==
    /\ pc = "loop"
    /\ pos < Len(inbox)
    /\ LET job_info == inbox[pos + 1]
       IN  IF job_info = NoJobInfo
           THEN /\ lastOp' = "extract"
                /\ arg' = NoArg
                /\ ret' = FALSE
                /\ msg' = "no_job_info"
                /\ counts' = NoCounts
                /\ genCalls' = <<>>
                /\ cacheTouched' = {}
                /\ UNCHANGED <<header, rows, cache, offered, successful, added, runCalls>>
                /\ pos' = NextEmail(Len(inbox), pos, TRUE)
           ELSE /\ SaveToCsv(job_info)
                /\ offered' = Append(offered, job_info)
                /\ successful' = IF ret' THEN successful + 1 ELSE successful
                /\ added' = IF msg' = "saved" THEN added + 1 ELSE added
                /\ runCalls' = runCalls \o genCalls'
                /\ pos' = NextEmail(Len(inbox), pos, ~ret')
    /\ UNCHANGED <<pc, inbox, logEntries>>
    /\ RunFrame

\* Lines 155-182: after the loop, the summary is mailed (ret: whether
\* send_summary_email was called) and logged only if some save returned True.
RunSummary ==
    /\ pc = "loop"
    /\ pos >= Len(inbox)
    /\ pc' = "done"
    /\ logEntries' = IF successful > 0 THEN logEntries + 1 ELSE logEntries
    /\ lastOp' = "summary"
    /\ arg' = NoArg
    /\ ret' = (successful > 0)
    /\ msg' = ""
    /\ counts' = NoCounts
    /\ genCalls' = <<>>
    /\ cacheTouched' = {}
    /\ UNCHANGED <<header, rows, cache, inbox, pos, offered, successful, added, runCalls>>
    /\ RunFrame

\* Rows of the stores a run starts on.
RunRows ==
    {<<"Eng", "Acme", "Submitted", "2024-01-01", "note">>,
     <<"Eng", "Beta", "Interview", "2024-02-01", "">>,
     <<"eng", "ACME", "Interview", "2024-02-01", "">>}

\* run_agent entered, the tracker constructed.
InitRun ==
    /\ header = FieldNames
    /\ rows \in SeqsUpTo(RunRows, MaxRunRows)
    /\ cache \in InitCaches
    /\ faults = FALSE
    /\ lastOp = "init"
    /\ arg = NoArg
    /\ ret = TRUE
    /\ msg = ""
    /\ counts = NoCounts
    /\ genCalls = <<>>
    /\ cacheTouched = {}
    /\ steps = 0
    /\ prev = <<"", "", NoCounts>>
    /\ raised = FALSE
    /\ pc = "dedup"
    /\ inbox = <<>>
    /\ pos = 0
    /\ offered = <<>>
    /\ successful = 0
    /\ added = 0
    /\ runCalls = <<>>
    /\ logEntries = 0
    /\ sched = NoSched

NextRun == RunDedup \/ RunGenerate \/ RunFetch \/ RunEmail \/ RunSummary

SpecRun == InitRun /\ [][NextRun]_vars

(* ------------------------------ scheduler.py, server.py ---------------- *)
MaxDays == 2          \* Times the clock passes 09:00.
MaxRequests == 2      \* GET requests the server answers.

\* What the scheduler leaves alone: it reaches the tracker only through the
\* child processes it starts.
trackerVars ==
    <<header, rows, cache, lastOp, arg, ret, msg, counts, genCalls, cacheTouched,
      steps, prev, faults, raised,
      pc, inbox, pos, offered, successful, added, runCalls, logEntries>>

\* Mutant: the child is started and not waited for.
OsSystemDetached(s) ==
    [s EXCEPT !.children = @ + 1, !.runs = @ + 1, !.at = "ran"]

\* os.system('python main.py'): the child process is started and the caller
\* stays in the call until the child has exited.
OsSystem(s) ==
    [s EXCEPT !.children = @ + 1, !.runs = @ + 1, !.at = "system"]

\* scheduler.main, lines 39-47: the daily job is registered and
\* run_job_tracker is called once at once.
SchedulerMain ==
    /\ sched.at = "main"
    /\ sched' = [sched EXCEPT !.at = "run", !.caller = "startup"]
    /\ UNCHANGED trackerVars

\* run_job_tracker, lines 25-33: up to the call of os.system.
RunJobTracker ==
    /\ sched.at = "run"
    /\ sched' = OsSystem(sched)
    /\ UNCHANGED trackerVars

\* A child process `python main.py` exits; the os.system that started it
\* returns.
ChildExits ==
    /\ sched.children > 0
    /\ sched' = [sched EXCEPT !.children = @ - 1,
                              !.at = IF @ = "system" THEN "ran" ELSE @]
    /\ UNCHANGED trackerVars

\* run_job_tracker returns (line 35): to main before its loop after the
\* start-up call, to run_pending after a scheduled call, which then sets the
\* job's next run to the next 09:00 and is followed by the sleep.
RunJobTrackerReturns ==
    /\ sched.at = "ran"
    /\ sched' = IF sched.caller = "startup"
                THEN [sched EXCEPT !.at = "loop"]
                ELSE [sched EXCEPT !.at = "sleep", !.due = FALSE]
    /\ UNCHANGED trackerVars

\* schedule.run_pending(), line 60: the job is run, in this thread, if its
\* time has come.
RunPending ==
    /\ sched.at = "loop"
    /\ sched' = IF sched.due
                THEN [sched EXCEPT !.at = "run", !.caller = "scheduled"]
                ELSE [sched EXCEPT !.at = "sleep"]
    /\ UNCHANGED trackerVars

\* time.sleep(60), line 61.
Sleep ==
    /\ sched.at = "sleep"
    /\ sched' = [sched EXCEPT !.at = "loop"]
    /\ UNCHANGED trackerVars

\* The clock passes 09:00: the job, once registered, is due.
NineOClock ==
    /\ sched.days < MaxDays
    /\ sched' = [sched EXCEPT !.days = @ + 1,
                              !.due = IF sched.at = "main" THEN @ ELSE TRUE]
    /\ UNCHANGED trackerVars

\* server.py, Handler.do_GET: a request is answered by the server thread; it
\* starts no run.
DoGet ==
    /\ sched.mode = "server"
    /\ sched.served < MaxRequests
    /\ sched' = [sched EXCEPT !.served = @ + 1]
    /\ UNCHANGED trackerVars

\* `python scheduler.py`, or `python server.py` with scheduler.main as its
\* one scheduler thread, just started; the store as a first construction
\* leaves it.
InitSched ==
    /\ sched \in {[NoSched EXCEPT !.mode = m, !.at = "main"] : m \in {"scheduler", "server"}}
    /\ header = FieldNames
    /\ rows = <<>>
    /\ cache = [f \in ResearchFiles |-> Missing]
    /\ faults = FALSE
    /\ lastOp = "init"
    /\ arg = NoArg
    /\ ret = TRUE
    /\ msg = ""
    /\ counts = NoCounts
    /\ genCalls = <<>>
    /\ cacheTouched = {}
    /\ steps = 0
    /\ prev = <<"", "", NoCounts>>
    /\ raised = FALSE
    /\ pc = "api"
    /\ inbox = <<>>
    /\ pos = 0
    /\ offered = <<>>
    /\ successful = 0
    /\ added = 0
    /\ runCalls = <<>>
    /\ logEntries = 0

NextSched ==
    \/ SchedulerMain \/ RunJobTracker \/ ChildExits \/ RunJobTrackerReturns
    \/ RunPending \/ Sleep \/ NineOClock \/ DoGet

SpecSched == InitSched /\ [][NextSched]_vars

(* ------------------------------ is_today ------------------------------- *)
\* A date string is the sequence of its characters, the name of a month
\* being one element.
DigitChars == <<"0", "1", "2", "3", "4", "5", "6", "7", "8", "9">>

IsDigit(c) == \E k \in DOMAIN DigitChars : DigitChars[k] = c

DigitVal(c) == (CHOOSE k \in DOMAIN DigitChars : DigitChars[k] = c) - 1

\* %B and %b of the months.
MonthNames ==
    <<"January", "February", "March", "April", "May", "June", "July",
      "August", "September", "October", "November", "December">>

MonthAbbrs ==
    <<"Jan", "Feb", "Mar", "Apr", "May", "Jun", "Jul", "Aug", "Sep", "Oct", "Nov", "Dec">>

\* The number printed with two and with four digits (%m, %d and %Y).
D2(n) == <<DigitChars[(n \div 10) + 1], DigitChars[(n % 10) + 1]>>

D4(n) == D2(n \div 100) \o D2(n % 100)

\* date_formats, in the order of the list; a format is the sequence of its
\* directives and literal characters.
DateFormats ==
    << <<"Y", "-", "m", "-", "d">>,
       <<"B", " ", "d", ",", " ", "Y">>,
       <<"b", " ", "d", ",", " ", "Y">>,
       <<"d", " ", "B", " ", "Y">>,
       <<"d", " ", "b", " ", "Y">>,
       <<"m", "/", "d", "/", "Y">>,
       <<"d", "/", "m", "/", "Y">>,
       <<"Y", "/", "m", "/", "d">> >>

\* strftime(fmt) of the date dt.
RECURSIVE Strftime(_, _)
Strftime(fmt, dt) ==
    IF fmt = <<>> THEN <<>>
    ELSE (CASE Head(fmt) = "Y" -> D4(dt.year)
            [] Head(fmt) = "m" -> D2(dt.month)
            [] Head(fmt) = "d" -> D2(dt.day)
            [] Head(fmt) = "B" -> <<MonthNames[dt.month]>>
            [] Head(fmt) = "b" -> <<MonthAbbrs[dt.month]>>
            [] OTHER -> <<Head(fmt)>>)
         \o Strftime(Tail(fmt), dt)

\* What strptime gives for a string the format does not match (ValueError).
NoDate == [year |-> 0, month |-> 0, day |-> 0]

LeapYear(y) == (y % 4 = 0 /\ y % 100 # 0) \/ y % 400 = 0

DaysIn(y, m) ==
    IF m = 2 THEN (IF LeapYear(y) THEN 29 ELSE 28)
    ELSE IF m \in {4, 6, 9, 11} THEN 30 ELSE 31

\* The digits a numeric directive takes from the front of str: two when they
\* make a number the directive allows, else one; 0 when there is none.
Taken(str, top) ==
    IF Len(str) >= 2 /\ IsDigit(str[1]) /\ IsDigit(str[2])
       /\ 10 * DigitVal(str[1]) + DigitVal(str[2]) \in 1..top
    THEN 2
    ELSE IF Len(str) >= 1 /\ IsDigit(str[1]) /\ DigitVal(str[1]) >= 1 THEN 1 ELSE 0

Number(digits) ==
    IF Len(digits) = 2 THEN 10 * DigitVal(digits[1]) + DigitVal(digits[2])
    ELSE DigitVal(digits[1])

\* The matching of strptime: the directives of fmt take their fields from
\* str in turn; NoDate when something does not match or something is left.
RECURSIVE Match(_, _, _)
Match(fmt, str, dt) ==
    IF fmt = <<>> THEN (IF str = <<>> THEN dt ELSE NoDate)
    ELSE IF str = <<>> THEN NoDate
    ELSE CASE Head(fmt) = "Y" ->
                IF Len(str) >= 4 /\ \A i \in 1..4 : IsDigit(str[i])
                THEN Match(Tail(fmt), SubSeq(str, 5, Len(str)),
                           [dt EXCEPT !.year = 100 * Number(SubSeq(str, 1, 2))
                                               + Number(SubSeq(str, 3, 4))])
                ELSE NoDate
           [] Head(fmt) \in {"m", "d"} ->
                LET n == Taken(str, IF Head(fmt) = "m" THEN 12 ELSE 31)
                    v == Number(SubSeq(str, 1, n))
                IN  IF n = 0 THEN NoDate
                    ELSE Match(Tail(fmt), SubSeq(str, n + 1, Len(str)),
                               IF Head(fmt) = "m" THEN [dt EXCEPT !.month = v]
                               ELSE [dt EXCEPT !.day = v])
           [] Head(fmt) \in {"B", "b"} ->
                LET names == IF Head(fmt) = "B" THEN MonthNames ELSE MonthAbbrs
                IN  IF \E k \in DOMAIN names : names[k] = Head(str)
                    THEN Match(Tail(fmt), Tail(str),
                               [dt EXCEPT !.month = CHOOSE k \in DOMAIN names : names[k] = Head(str)])
                    ELSE NoDate
           [] OTHER ->
                IF Head(str) = Head(fmt) THEN Match(Tail(fmt), Tail(str), dt) ELSE NoDate

\* datetime.strptime(str, fmt): the date, NoDate where it raises ValueError
\* (no match, or a day the month does not have).
Strptime(str, fmt) ==
    LET dt == Match(fmt, str, NoDate)
    IN  IF dt # NoDate /\ dt.day <= DaysIn(dt.year, dt.month) THEN dt ELSE NoDate

\* The loop over date_formats: the date of the first format that parses the
\* string, NoDate if none does.
RECURSIVE ParsedDate(_, _)
ParsedDate(str, formats) ==
    IF formats = <<>> THEN NoDate
    ELSE IF Strptime(str, Head(formats)) # NoDate THEN Strptime(str, Head(formats))
    ELSE ParsedDate(str, Tail(formats))

\* `sub in str`
Contains(str, sub) ==
    \E i \in 0..(Len(str) - Len(sub)) : SubSeq(str, i + 1, i + Len(sub)) = sub

\* str.strip()
RECURSIVE StripStr(_)
StripStr(str) ==
    IF str # <<>> /\ Head(str) = " " THEN StripStr(Tail(str))
    ELSE IF str # <<>> /\ str[Len(str)] = " " THEN StripStr(SubSeq(str, 1, Len(str) - 1))
    ELSE str

\* str.lower() on the strings offered.
LowerStr(str) ==
    [i \in DOMAIN str |-> CASE str[i] = "N" -> "n" [] str[i] = "A" -> "a" [] OTHER -> str[i]]

\* The values of line 22 for which no date was given ("n/a" of them here).
Placeholders == {<<"n", "/", "a">>}

\* is_today(date_str) on the day `today`.
IsToday(date_str, today) ==
    IF date_str = <<>> \/ LowerStr(date_str) \in Placeholders
    THEN FALSE
    ELSE LET str == StripStr(date_str)
             parsed_date == ParsedDate(str, DateFormats)
         IN  \/ parsed_date # NoDate /\ parsed_date = today
             \/ Contains(str, Strftime(DateFormats[1], today))
             \/ Contains(str, Strftime(DateFormats[2], today))
             \/ /\ Contains(str, Strftime(<<"B", " ", "d">>, today))
                /\ Contains(str, D4(today.year))
             \/ /\ Contains(str, D4(today.year))
                /\ \/ Contains(str, D2(today.month))
                   \/ Contains(str, <<MonthNames[today.month]>>)
                /\ Contains(str, D2(today.day))

\* The days the applications are dated and the days the run takes place.
Days ==
    {[year |-> y, month |-> m, day |-> d] : y \in {2025, 2026}, m \in {2, 11}, d \in {2, 11, 20}}

\* The date strings found in the store: a day in one of the formats, with or
\* without blanks around it, no date, and a placeholder.
DateStrings ==
    {Strftime(DateFormats[k], dt) : k \in DOMAIN DateFormats, dt \in Days}
    \cup {<<" ">> \o Strftime(DateFormats[1], dt) \o <<" ">> : dt \in Days}
    \cup {<<>>, <<"N", "/", "A">>}

\* run_agent, line 162: is_today(app['date']) for one application.
IsTodayCall ==
    /\ lastOp = "init"
    /\ lastOp' = "is_today"
    /\ ret' = IsToday(arg.date_str, arg.today)
    /\ UNCHANGED <<header, rows, cache, arg, msg, counts, genCalls, cacheTouched,
                   steps, prev, faults, raised, runVars>>

InitDates ==
    /\ arg \in {[date_str |-> str, today |-> dt] : str \in DateStrings, dt \in Days}
    /\ header = FieldNames
    /\ rows = <<>>
    /\ cache = [f \in ResearchFiles |-> Missing]
    /\ faults = FALSE
    /\ lastOp = "init"
    /\ ret = TRUE
    /\ msg = ""
    /\ counts = NoCounts
    /\ genCalls = <<>>
    /\ cacheTouched = {}
    /\ steps = 0
    /\ prev = <<"", "", NoCounts>>
    /\ raised = FALSE
    /\ pc = "api"
    /\ inbox = <<>>
    /\ pos = 0
    /\ offered = <<>>
    /\ successful = 0
    /\ added = 0
    /\ runCalls = <<>>
    /\ logEntries = 0
    /\ sched = NoSched

NextDates == IsTodayCall

SpecDates == InitDates /\ [][NextDates]_vars

(* ------------------------------ properties ----------------------------- *)
\* The identity key of a stored line: lowercase title and lowercase company
\* (no company on a line of one field).
StoredKey(fields) ==
    <<Lower(fields[1]), IF Len(fields) >= 2 THEN Lower(fields[2]) ELSE NoneVal>>

\* The lines of the store that are records.
Records(rs) == {i \in DOMAIN rs : rs[i] # BadLine}

\* At most one record per identity key.
UniqueKeys(rs) ==
    \A i, j \in Records(rs) : StoredKey(rs[i]) = StoredKey(rs[j]) => i = j

\* C1: a save_to_csv call on a store with at most one record per identity
\* key leaves a store with at most one record per identity key, whatever the
\* candidate.
C1_SaveKeepsKeysUnique ==
    [][(lastOp' = "save" /\ UniqueKeys(rows)) => UniqueKeys(rows')]_vars

\* C2: after remove_duplicates has returned success, no two records of the
\* store share an identity key.
C2_DedupLeavesKeysUnique ==
    (lastOp = "dedup" /\ ret = TRUE) => UniqueKeys(rows)

\* A successful run that merged duplicates: it read more rows than it kept.
C2_Witness ==
    /\ lastOp = "dedup" /\ ret = TRUE /\ msg = "deduplicated"
    /\ counts[2] < counts[1] - counts[3]

\* C3: a remove_duplicates run right after another leaves the store as the
\* first run left it, header and rows in their order, and reports that it
\* dropped no invalid row and merged no duplicate.
C3_DedupIdempotent ==
    [][(lastOp = "dedup" /\ lastOp' = "dedup") =>
          /\ rows' = rows
          /\ header' = header
          /\ counts'[2] = counts'[1]
          /\ counts'[3] = 0]_vars

\* A second run in a row, after a first run that removed rows.
C3_Witness ==
    /\ lastOp = "dedup" /\ msg = "deduplicated"
    /\ prev[1] = "dedup" /\ prev[2] = "deduplicated"
    /\ prev[3][2] < prev[3][1]

\* The lines of the store that remove_duplicates takes for valid records.
ValidIdx(rs) ==
    {i \in Records(rs) : Len(rs[i]) >= 2 /\ ~IsBlank(rs[i][2])}

\* The last valid record of key k.
LastIdx(rs, k) ==
    CHOOSE i \in ValidIdx(rs) :
        /\ StoredKey(rs[i]) = k
        /\ \A j \in ValidIdx(rs) : StoredKey(rs[j]) = k => j <= i

Min(a, b) == IF a <= b THEN a ELSE b

\* C4: when remove_duplicates succeeds, for every identity key of a valid
\* record the store afterwards holds exactly one record, and it carries the
\* title, company, status, date (and research, if it had one) of the record
\* of that key that came last in the store before.
C4_LastWins ==
    [][(lastOp' = "dedup" /\ ret' = TRUE) =>
          \A i \in ValidIdx(rows) :
             LET k == StoredKey(rows[i])
                 last == rows[LastIdx(rows, k)]
                 kept == {j \in Records(rows') : StoredKey(rows'[j]) = k}
             IN  /\ Cardinality(kept) = 1
                 /\ \A j \in kept :
                       SubSeq(rows'[j], 1, Min(5, Len(last))) = SubSeq(last, 1, Min(5, Len(last)))]_vars

\* A successful run that merged the records of one key and kept another key.
C4_Witness ==
    /\ lastOp = "dedup" /\ ret = TRUE /\ msg = "deduplicated"
    /\ counts[2] >= 2
    /\ counts[1] - counts[3] > counts[2]

\* A candidate that carries the four keys.
HasAllKeys(data) == {"title", "company", "status", "date"} \subseteq DOMAIN data

\* The store holds a record with the candidate's title and company, compared
\* without regard to case.
StoreHasKeyOf(data, rs) ==
    /\ data["title"] # NoneVal
    /\ \E i \in Records(rs) :
          /\ Len(rs[i]) >= 2
          /\ Lower(rs[i][1]) = Lower(data["title"])
          /\ Lower(rs[i][2]) = Lower(data["company"])

\* What an operation that touches neither file leaves alone.
NothingTouched ==
    /\ rows' = rows
    /\ header' = header
    /\ cache' = cache
    /\ cacheTouched' = {}
    /\ genCalls' = <<>>

\* C5: save_to_csv of a candidate (the four keys, a company that is not
\* blank) whose title and company the store already holds returns success,
\* leaves the rows as they are and neither reads nor writes the research cache.
C5_SaveDuplicateIsNoop ==
    [][(/\ lastOp' = "save"
        /\ HasAllKeys(arg')
        /\ arg'["company"] \notin BlankCompanies \cup {NoneVal}
        /\ StoreHasKeyOf(arg', rows))
       => (ret' = TRUE /\ NothingTouched)]_vars

\* A duplicate save whose candidate differs in spelling and in status from
\* the stored record of its key.
C5_Witness ==
    /\ lastOp = "save" /\ ret = TRUE /\ msg = "duplicate"
    /\ \E i \in Records(rows) :
          /\ StoredKey(rows[i]) = <<Lower(arg["title"]), Lower(arg["company"])>>
          /\ rows[i][1] # arg["title"]
          /\ rows[i][3] # arg["status"]

\* C6: save_to_csv of a candidate whose company is empty or only whitespace
\* returns failure, leaves the store as it is, and makes no research lookup:
\* no generator call, no research file touched.
C6_BlankCompanyRejected ==
    [][(/\ lastOp' = "save"
        /\ "company" \in DOMAIN arg'
        /\ arg'["company"] \in BlankCompanies)
       => (ret' = FALSE /\ NothingTouched)]_vars

\* A whitespace-only company offered to a store that holds rows.
C6_Witness ==
    /\ lastOp = "save" /\ ret = FALSE
    /\ "company" \in DOMAIN arg /\ arg["company"] = " "
    /\ rows # <<>>

\* C7: save_to_csv of a candidate that lacks one of the keys title, company,
\* status, date returns failure and leaves the store and the research cache
\* as they are.
C7_MissingKeyRejected ==
    [][(lastOp' = "save" /\ ~HasAllKeys(arg'))
       => (ret' = FALSE /\ rows' = rows /\ header' = header /\ cache' = cache)]_vars

\* A candidate with no date offered to a store that holds rows.
C7_Witness ==
    /\ lastOp = "save" /\ ret = FALSE
    /\ "date" \notin DOMAIN arg /\ "title" \in DOMAIN arg
    /\ rows # <<>>

\* The duplicate check of save_to_csv meets an exception on this store: the
\* store cannot be read, or a comparison raises before any record matches.
DuplicateCheckRaises(data, hdr, rs) ==
    \/ ReadFails(rs)
    \/ \E i \in DOMAIN rs :
          /\ CompareRaises(ReadRow(hdr, rs[i]), data)
          /\ \A j \in 1..(i - 1) : ~CompareMatches(ReadRow(hdr, rs[j]), data)

\* C8: an exception at any step of save_to_csv, the duplicate check
\* included, makes it return failure with no record appended.
C8_SaveExceptionIsFailure ==
    [][(/\ lastOp' = "save"
        /\ HasAllKeys(arg')
        /\ arg'["company"] \notin BlankCompanies \cup {NoneVal}
        /\ DuplicateCheckRaises(arg', header, rows))
       => (ret' = FALSE /\ rows' = rows)]_vars

\* C9: remove_duplicates that reports failure leaves the store's content as
\* it was before the call.
C9_FailedDedupKeepsStore ==
    [][(lastOp' = "dedup" /\ ret' = FALSE)
       => (rows' = rows /\ header' = header)]_vars

\* C10: remove_duplicates started on a store that cannot be read reports
\* failure.
C10_UnreadableStoreFailsDedup ==
    [][(lastOp' = "dedup" /\ ReadFails(rows)) => ret' = FALSE]_vars

\* The generator was called for a company whose research file is f.
CalledFor(calls, f) == \E i \in DOMAIN calls : SafeName(calls[i][1]) = f

NoDuplicateNoBlank(rs) ==
    /\ UniqueKeys(rs)
    /\ \A i \in DOMAIN rs :
          rs[i] # BadLine /\ Len(rs[i]) >= 2 /\ rs[i][2] \notin BlankCompanies

\* C12 as stated: remove_duplicates on a store with no duplicate keys and no
\* blank-company rows leaves header and rows as they were.
C12_RewriteIsNoop ==
    [][(lastOp' = "dedup" /\ NoDuplicateNoBlank(rows))
       => (rows' = rows /\ header' = header)]_vars

\* C12, amended: remove_duplicates on a store in the five-column layout (the
\* header with the research column, five fields in every row) with no
\* duplicate keys and no blank-company rows leaves header and rows as they
\* were.
C12_RewriteOfCurrentLayoutIsNoop ==
    [][(/\ lastOp' = "dedup"
        /\ header = FieldNames
        /\ \A i \in DOMAIN rows : Len(rows[i]) = Len(FieldNames)
        /\ NoDuplicateNoBlank(rows))
       => (rows' = rows /\ header' = header)]_vars

\* A pass that read two or more records, kept them all, looked up no
\* research, and wrote back a record with research text.
C12_Witness ==
    /\ lastOp = "dedup" /\ msg = "deduplicated"
    /\ counts[1] >= 2 /\ counts[2] = counts[1] /\ counts[3] = 0
    /\ cacheTouched = {}
    /\ \E i \in DOMAIN rows : rows[i][5] # ""

\* The operation just made looked up a company that had no research file,
\* and the generator, asked once, answered nothing.
MissWithNoContent(company) ==
    /\ company \in Companies
    /\ cache[SafeName(company)] = Missing
    /\ genCalls' = <<<<company, NoneVal>>>>

\* C13: on a cache miss where the generator returns no content,
\* _get_company_research returns "" and writes no research file, and a
\* save_to_csv that meets this case appends the record with research "" and
\* returns success.
C13_NoContentGivesEmptyResearch ==
    [][/\ (lastOp' = "get" /\ MissWithNoContent(arg'["company"]))
          => (ret' = "" /\ cache' = cache)
       /\ (/\ lastOp' = "save"
           /\ DOMAIN arg' = {"title", "company", "status", "date"}
           /\ MissWithNoContent(arg'["company"]))
          => /\ ret' = TRUE
             /\ cache' = cache
             /\ rows' = Append(rows,
                   <<IF arg'["title"] = NoneVal THEN "" ELSE arg'["title"],
                     arg'["company"], arg'["status"], arg'["date"], "">>)]_vars

\* A save that appended a record with empty research after the generator
\* answered nothing, with no research file written.
C13_Witness ==
    /\ lastOp = "save" /\ ret = TRUE /\ msg = "saved"
    /\ genCalls = <<<<arg["company"], NoneVal>>>>
    /\ cache[SafeName(arg["company"])] = Missing
    /\ rows[Len(rows)][5] = ""
    /\ rows[Len(rows)][1] = arg["title"]

\* The company names of the records of a store.
StoreCompanies(rs) == {rs[i][2] : i \in {j \in Records(rs) : Len(rs[j]) >= 2}}

\* How often the generator was called for the company.
TimesCalled(calls, company) ==
    Cardinality({i \in DOMAIN calls : calls[i][1] = company})

\* The research files that exist in cache d and did not in cache c.
NewFiles(c, d) == {f \in ResearchFiles : c[f] = Missing /\ d[f] # Missing}

\* C15: generate_research_for_all_companies, in src/app and in src/main.py
\* alike, goes through every company name
\* of the store: for a blank name and for a name whose research file exists
\* it calls no generator and writes nothing; for every other name it calls
\* the generator once and writes what it answered; and it returns the number
\* of research files that exist after the call and did not before.
C15_GenerateMissingCountsNewNotes ==
    [][lastOp' \in {"genall", "genall_monolith"} =>
         /\ \A company \in StoreCompanies(rows) :
               IF company \in BlankCompanies
               THEN TimesCalled(genCalls', company) = 0
               ELSE IF cache[SafeName(company)] # Missing
               THEN /\ TimesCalled(genCalls', company) = 0
                    /\ cache'[SafeName(company)] = cache[SafeName(company)]
               ELSE /\ TimesCalled(genCalls', company) = 1
                    /\ \A i \in DOMAIN genCalls' :
                          genCalls'[i][1] = company =>
                              cache'[SafeName(company)] =
                                  (IF genCalls'[i][2] = NoneVal THEN Missing
                                   ELSE genCalls'[i][2])
         /\ \A i \in DOMAIN genCalls' : genCalls'[i][1] \in StoreCompanies(rows)
         /\ ret' = Cardinality(NewFiles(cache, cache'))]_vars

\* C16: in generate_research_for_all_companies a company whose note cannot
\* be had (no answer from the generator, or its file cannot be written) does
\* not end the pass: the generator is still called for every other company
\* of the store that has no research file, and the notes written are counted
\* in the number returned.
C16_FailureDoesNotEndPass ==
    [][(lastOp' = "genall" /\ ~ReadFails(rows)) =>
         /\ \A company \in StoreCompanies(rows) :
               (company \in Companies /\ cache[SafeName(company)] = Missing)
                   => TimesCalled(genCalls', company) >= 1
         /\ ret' >= Cardinality(NewFiles(cache, cache'))]_vars

\* C20: _get_company_research with an empty or whitespace-only company
\* returns the sentinel, calls no generator and touches no research file.
C20_BlankCompanyFailsFast ==
    [][(lastOp' = "get" /\ arg'["company"] \in BlankCompanies)
       => /\ ret' = "No company name provided"
          /\ genCalls' = <<>>
          /\ cacheTouched' = {}
          /\ cache' = cache]_vars

\* A lookup of the whitespace-only company.
C20_Witness ==
    /\ lastOp = "get" /\ arg["company"] = " "
    /\ ret = "No company name provided"

\* C14: within one run the generator is not asked again for a company it
\* gave no answer for: no call that answered nothing is followed by another
\* call for the same company.
C14_NoRetryWithinRun ==
    \A i, j \in DOMAIN runCalls :
        (i < j /\ runCalls[i][2] = NoneVal) => runCalls[j][1] # runCalls[i][1]

\* C17: a run that has ended has appended exactly one entry to the summary
\* log, whatever came of it.
C17_OneLogEntryPerRun == pc = "done" => logEntries = 1

\* The emails for which extract_job_info gave something, in order.
Extracted(emails) == SelectSeq(emails, LAMBDA job_info : job_info # NoJobInfo)

\* C19: a failed email does not end the batch: when the run has ended the
\* loop has been through every fetched email, and every email that gave a
\* candidate, after a failed extraction or a failed save as well, has been
\* passed to save_to_csv.
C19_FailedItemDoesNotEndBatch ==
    pc = "done" => (pos = Len(inbox) /\ offered = Extracted(inbox))

\* A run that ended after an email with no job info, then a candidate whose
\* save failed, or the other way round, with the second still handled.
C19_Witness ==
    /\ pc = "done"
    /\ Len(inbox) = 2
    /\ successful = 1
    /\ \/ inbox[1] = NoJobInfo
       \/ inbox[1]["company"] \in BlankCompanies
    /\ offered # <<>>
    /\ offered[Len(offered)] = inbox[2]

C21_HeaderAlwaysCurrent ==
    /\ [](pc = "api" => header = FieldNames)
    /\ [][(lastOp' = "initialize" /\ header # NoFile)
            => (header' = header /\ rows' = rows)]_vars

\* C22: a run calls send_summary_email only if it appended a record to the
\* store; a run whose candidates were all in the store already sends nothing.
C22_MailOnlyIfRecordAdded ==
    (lastOp = "summary" /\ ret = TRUE) => added > 0

\* C23: after remove_duplicates has succeeded on a store that held rows, no
\* record of the store has an empty or whitespace-only company, and every
\* record with another company is still there in title, company, status and
\* date unless a later record of the store had its identity key.
C23_DedupDropsBlankCompanies ==
    [][(lastOp' = "dedup" /\ ret' = TRUE /\ rows # <<>>) =>
         /\ \A j \in DOMAIN rows' : rows'[j][2] \notin {"", " "}
         /\ \A i \in DOMAIN rows :
               rows[i][2] \notin {"", " "} =>
                  \/ \E j \in DOMAIN rows' : SubSeq(rows'[j], 1, 4) = SubSeq(rows[i], 1, 4)
                  \/ \E k \in DOMAIN rows :
                        k > i /\ StoredKey(rows[k]) = StoredKey(rows[i])]_vars

\* A successful pass that dropped a record with a blank company and kept
\* one with a company.
C23_Witness ==
    /\ lastOp = "dedup" /\ ret = TRUE /\ msg = "deduplicated"
    /\ counts[3] >= 1
    /\ counts[2] >= 1
    /\ \A j \in DOMAIN rows : rows[j][2] \notin {"", " "}

\* What a lookup of the company gives during a pass that started on cache c
\* and made the generator calls `calls`: the body of its research file if it
\* had one, else what the generator answered, "" if it answered nothing.
Backfilled(company, c, calls) ==
    LET f == SafeName(company)
    IN  IF c[f] \notin {Missing, Short}
        THEN {Strip(c[f])}
        ELSE {IF calls[i][2] = NoneVal THEN "" ELSE calls[i][2] :
                 i \in {k \in DOMAIN calls : calls[k][1] = company}}

\* C24: in a remove_duplicates pass that succeeds, every record written back
\* from a store without the research column carries as research what the
\* cache lookup of its company gave, and every record written back from a
\* store with the research column carries the research it had.
C24_DedupBackfillsLegacyRows ==
    [][(lastOp' = "dedup" /\ ret' = TRUE /\ rows # <<>>) =>
         \A j \in DOMAIN rows' :
            IF "research" \in Range(header)
            THEN \E i \in DOMAIN rows : rows[i] = rows'[j]
            ELSE /\ rows'[j][5] \in Backfilled(rows'[j][2], cache, genCalls')
                 /\ \E i \in DOMAIN rows : SubSeq(rows'[j], 1, 4) = SubSeq(rows[i], 1, 4)]_vars

\* A pass that wrote back one record with the body of its company's research
\* file and another with what the generator answered for its company.
C24_Witness ==
    /\ lastOp = "dedup" /\ ret = TRUE /\ msg = "deduplicated"
    /\ prev[1] = "init"
    /\ Len(genCalls) = 1 /\ genCalls[1][2] = "gen"
    /\ \E i, j \in DOMAIN rows :
          /\ rows[i][5] = "note" /\ rows[i][2] \notin {genCalls[1][1]}
          /\ rows[j][5] = "gen" /\ rows[j][2] = genCalls[1][1]

\* C25: under scheduler.main, alone or as the scheduler thread of
\* server.py, at most one run is in progress at any time: the start-up run
\* and every scheduled run have ended before the next one is started.
C25_RunsNeverOverlap == sched.children <= 1

\* Under server.py a scheduled run in progress after the start-up run and an
\* earlier scheduled run, with the clock past 09:00 again meanwhile.
C25_Witness ==
    /\ sched.mode = "server"
    /\ sched.runs = 3
    /\ sched.children = 1
    /\ sched.caller = "scheduled"
    /\ sched.at = "system"

\* C26: for a date string that one of the date formats parses, is_today
\* returns True exactly when the parsed year, month and day are today's; a
\* string parsed to another day is answered False.
C26_ParsedDateDecides ==
    (lastOp = "is_today" /\ ParsedDate(StripStr(arg.date_str), DateFormats) # NoDate)
        => (ret = TRUE <=> ParsedDate(StripStr(arg.date_str), DateFormats) = arg.today)

\* C27: save_to_csv leaves the header and every stored row as they are, in
\* their order, and adds at most one row, at the end; a save that returns
\* success for a candidate whose title and company the store does not hold
\* adds exactly one row, the candidate's.
C27_SaveOnlyAppends ==
    [][lastOp' = "save" =>
         /\ header' = header
         /\ Len(rows') \in {Len(rows), Len(rows) + 1}
         /\ SubSeq(rows', 1, Len(rows)) = rows
         /\ (ret' = TRUE /\ ~StoreHasKeyOf(arg', rows)) =>
               /\ Len(rows') = Len(rows) + 1
               /\ rows'[Len(rows')][2] = arg'["company"]
               /\ rows'[Len(rows')][3] = arg'["status"]]_vars

\* A save that added its row after the two or more rows of the store.
C27_Witness ==
    /\ lastOp = "save" /\ ret = TRUE /\ msg = "saved"
    /\ Len(rows) >= 3
    /\ rows[Len(rows)][2] = arg["company"]
    /\ rows[1][2] # arg["company"]

\* C28: two company names never share a research file: after a lookup that
\* generated and stored the note of one company, a lookup of a company of
\* another name does not touch the file that note was written to.
C28_NoteNotSharedAcrossNames ==
    [][(/\ lastOp = "get" /\ lastOp' = "get"
        /\ genCalls # <<>>
        /\ genCalls[1][2] # NoneVal
        /\ cache[SafeName(arg["company"])] = genCalls[1][2]
        /\ arg'["company"] # arg["company"])
       => SafeName(arg["company"]) \notin cacheTouched']_vars

\* The first line of the store with identity key k.
FirstIdx(rs, k) ==
    CHOOSE i \in DOMAIN rs :
        StoredKey(rs[i]) = k /\ \A j \in 1..(i - 1) : StoredKey(rs[j]) # k

\* C29: every record of the store after remove_duplicates has the title,
\* company, status and date of a record that was in the store before, and
\* the records stand in the order in which their identity keys first occur
\* in the store before.
C29_DedupInventsNothing ==
    [][(lastOp' = "dedup" /\ rows # <<>>) =>
         /\ \A j \in DOMAIN rows' :
               \E i \in DOMAIN rows : SubSeq(rows'[j], 1, 4) = SubSeq(rows[i], 1, 4)
         /\ \A j1, j2 \in DOMAIN rows' :
               j1 < j2 => FirstIdx(rows, StoredKey(rows'[j1]))
                            < FirstIdx(rows, StoredKey(rows'[j2]))]_vars

\* A pass over three records that kept two, the first of them a record that
\* took the place of an earlier one of its key.
C29_Witness ==
    /\ lastOp = "dedup" /\ ret = TRUE /\ msg = "deduplicated"
    /\ counts = <<3, 2, 0>>
    /\ Len(rows) = 2
    /\ rows[1][1] = "eng" /\ rows[1][2] = "ACME"
    /\ rows[2][2] = "Beta"

\* C30: generate_research_for_all_companies of src/main.py does what the
\* packaged one does: on the same store and cache, with the companies taken
\* in the same order and the generator giving the same answers, it makes the
\* same generator calls, leaves the same research files and returns the same
\* value.
C30_MonolithMatchesPackage ==
    [][lastOp' = "genall_monolith" =>
         LET apps == GetAllApplications(header, rows)
             companies == {apps[i]["company"] : i \in DOMAIN apps}
         IN  IF apps = <<>>
             THEN ret' = 0 /\ cache' = cache /\ genCalls' = <<>>
             ELSE \E order \in Orders(companies), gen \in [Companies -> GenOutcomes],
                     failAt \in WriteFailTargets :
                     LET st == GenerateLoop(order,
                                            [cache |-> cache, calls |-> <<>>, touched |-> {},
                                             n |-> 0, failed |-> FALSE],
                                            gen, failAt)
                     IN  /\ genCalls' = st.calls
                         /\ cache' = st.cache
                         /\ ret' = IF st.failed THEN 0 ELSE st.n]_vars

====
